---- MODULE Spec2Model ----
(***************************************************************************)
(* A model of src/app.py: the FastAPI application that answers             *)
(* POST /rcacapa-query by handing the query to a "Host" chat agent, which  *)
(* may call the tool analyse_task; analyse_task runs the categoriser and   *)
(* the data agent through one shared ConcurrentOrchestration on one shared *)
(* InProcessRuntime, waits for their answers and joins them into one       *)
(* string.                                                                 *)
(*                                                                         *)
(* The handlers are coroutines of one event loop: a step of the model is   *)
(* the code between two suspension points (an await that really waits).    *)
(* Text is a sequence of tokens (strings); the join of the code is the     *)
(* concatenation of such sequences with separator tokens.                  *)
(***************************************************************************)
EXTENDS Naturals, Sequences, FiniteSets, TLC

(***************************************************************************)
(* Bounds of the model.                                                    *)
(***************************************************************************)
\* Number of chat requests the clients send over the life of the process.
NumReqs == 2
\* Number of times the host model may call analyse_task for one request.
MaxToolCalls == 2

Reqs == 1..NumReqs

\* ChatRequest.conversation_id: "default" when the body has none.
Cids == {"default", "c1"}

\* ChatRequest.user_query.
Queries == {"Hello", "check batch X"}

\* members, in the order lifespan registers them with the orchestration.
Agents == <<"Categoriser", "DataAgent">>

AgentSet == {Agents[i] : i \in 1..Len(Agents)}

None == "none"

VARIABLES
  lpc,          \* position of lifespan
  credential,   \* global credential: none / open / closed
  agent_client, \* global agent_client: none / open / closed
  orchestration,\* global orchestration: none / set
  runtime,      \* global runtime: none / running / stopped
  released,     \* the resources released so far, in release order
  threads,      \* the dict threads: cid -> thread instance (0: no entry)
  created,      \* number of ChatHistoryAgentThread instances constructed
  hist,         \* thread instance -> its chat history
  pc,           \* position of each chat request
  cid,          \* req.conversation_id of each request
  query,        \* req.user_query of each request
  thread,       \* the local `thread` of each chat call (0: not yet set)
  path,         \* the states the host went through for the request
  calls,        \* analyse_task calls made for the request
  invoked,      \* orchestration.invoke calls made for the request
  round,        \* the dispatch round of the request's current tool call
  stale,        \* agent calls still running for rounds that were given up
  items,        \* assistant_msg.items of the request
  response      \* the body returned by chat (None: not yet)

vars == <<lpc, credential, agent_client, orchestration, runtime, released,
          threads, created, hist, pc, cid, query, thread, path, calls,
          invoked, round, stale, items, response>>

lifeVars == <<lpc, credential, agent_client, orchestration, runtime, released>>
storeVars == <<threads, created, hist>>
reqVars == <<pc, cid, query, thread, path, calls, invoked, round, stale, items,
            response>>


(***************************************************************************)
(* Text: the pure functions of the code.                                   *)
(***************************************************************************)
\* sep.join(parts) of Python, parts a sequence of token sequences.
RECURSIVE Join(_, _)
Join(sep, parts) ==
  IF parts = <<>> THEN <<>>
  ELSE IF Len(parts) = 1 THEN parts[1]
  ELSE parts[1] \o sep \o Join(sep, Tail(parts))

\* The text the agent produces for a task (a.items[0].text).
AgentText(a, task) ==
  IF a = "Categoriser"
  THEN (IF task = "Hello" THEN <<"G1">> ELSE <<"T1">>)
  ELSE (IF task = "Hello" THEN <<"G2">> ELSE <<"T2">>)

\* f"{a.name}:\n{a.items[0].text}" for one answer.
FormatAnswer(a) == <<a.name, ":\n">> \o a.text

\* The return value of analyse_task for the list `answers` that fut.get gave:
\* "\n\n".join(f"{a.name}:\n{a.items[0].text}" for a in answers).
AnalyseJoin(answers) ==
  Join(<<"\n\n">>, [i \in 1..Len(answers) |-> FormatAnswer(answers[i])])

\* The text items of a message that chat keeps: getattr(item, "text", None)
\* is falsy for an item without text and for an empty text.
RECURSIVE KeptTexts(_)
KeptTexts(its) ==
  IF its = <<>> THEN <<>>
  ELSE IF its[1].kind = "text" /\ its[1].text # <<>>
       THEN <<its[1].text>> \o KeptTexts(Tail(its))
       ELSE KeptTexts(Tail(its))

\* plain_response of chat: " ".join(item.text for item in items if text).
PlainResponse(its) == Join(<<" ">>, KeptTexts(its))

TextItem(t) == [kind |-> "text", text |-> t]

(***************************************************************************)
(* Initial state: the module has been imported, lifespan has not started.  *)
(***************************************************************************)
\* No tool call has been made yet.
NoRound == [status |-> "none", task |-> None, pending |-> {},
            failed |-> {}, answers |-> <<>>, reply |-> <<>>]

Init ==
  /\ lpc = "start"
  /\ credential = None
  /\ agent_client = None
  /\ orchestration = None
  /\ runtime = None
  /\ released = <<>>
  /\ threads = [c \in Cids |-> 0]
  /\ created = 0
  /\ hist = <<>>
  /\ pc = [r \in Reqs |-> "idle"]
  /\ cid = [r \in Reqs |-> None]
  /\ query = [r \in Reqs |-> None]
  /\ thread = [r \in Reqs |-> 0]
  /\ path = [r \in Reqs |-> <<>>]
  /\ calls = [r \in Reqs |-> 0]
  /\ invoked = [r \in Reqs |-> 0]
  /\ round = [r \in Reqs |-> NoRound]
  /\ stale = 0
  /\ items = [r \in Reqs |-> <<>>]
  /\ response = [r \in Reqs |-> None]

(***************************************************************************)
(* lifespan: startup, the yield that serves requests, cleanup.             *)
(***************************************************************************)
\* credential = DefaultAzureCredential()
CreateCredential ==
  /\ lpc = "start"
  /\ lpc' = "credential"
  /\ credential' = "open"
  /\ UNCHANGED <<agent_client, orchestration, runtime, released>>
  /\ UNCHANGED <<storeVars, reqVars>>

\* client = AzureAIAgent.create_client(...); agent_client = client
CreateClient ==
  /\ lpc = "credential"
  /\ lpc' = "client"
  /\ agent_client' = "open"
  /\ UNCHANGED <<credential, orchestration, runtime, released>>
  /\ UNCHANGED <<storeVars, reqVars>>

\* cat_def = await client.agents.get_agent(CATEGORISER_AGENT_ID)
\* data_def = await client.agents.get_agent(DATA_AGENT_ID)
GetAgentDef ==
  /\ lpc \in {"client", "cat_def"}
  /\ lpc' = IF lpc = "client" THEN "cat_def" ELSE "data_def"
  /\ UNCHANGED <<credential, agent_client, orchestration, runtime, released>>
  /\ UNCHANGED <<storeVars, reqVars>>

\* get_agent raises: the exception leaves lifespan, which has no try/finally,
\* so nothing acquired so far is released and the application does not start.
StartupFail ==
  /\ lpc \in {"client", "cat_def"}
  /\ lpc' = "failed"
  /\ UNCHANGED <<credential, agent_client, orchestration, runtime, released>>
  /\ UNCHANGED <<storeVars, reqVars>>

\* members = [categoriser, data]; orchestration = ConcurrentOrchestration(members)
CreateOrchestration ==
  /\ lpc = "data_def"
  /\ lpc' = "orchestration"
  /\ orchestration' = "set"
  /\ UNCHANGED <<credential, agent_client, runtime, released>>
  /\ UNCHANGED <<storeVars, reqVars>>

\* A lifespan that constructs the runtime and yields without starting it.
StartRuntime_not_started ==
  /\ lpc = "orchestration"
  /\ lpc' = "serving"
  /\ runtime' = "created"
  /\ UNCHANGED <<credential, agent_client, orchestration, released>>
  /\ UNCHANGED <<storeVars, reqVars>>

\* runtime = InProcessRuntime(); runtime.start(); yield
StartRuntime ==
  /\ lpc = "orchestration"
  /\ lpc' = "serving"
  /\ runtime' = "running"
  /\ UNCHANGED <<credential, agent_client, orchestration, released>>
  /\ UNCHANGED <<storeVars, reqVars>>

\* The server resumes lifespan after the yield: an ASGI server sends
\* lifespan.shutdown once it has stopped accepting connections and every
\* connection has been closed, so no chat call is in progress.
BeginShutdown ==
  /\ lpc = "serving"
  /\ \A r \in Reqs : pc[r] \in {"idle", "done"}
  /\ lpc' = "cleanup"
  /\ UNCHANGED <<credential, agent_client, orchestration, runtime, released>>
  /\ UNCHANGED <<storeVars, reqVars>>

\* The runtime is idle when no agent is still working on a message.
RuntimeIdle ==
  /\ \A r \in Reqs : round[r].pending = {}
  /\ stale = 0

\* A shutdown that stops the runtime at once, whatever it is working on
\* (runtime.stop() in place of stop_when_idle()).
StopRuntime_no_wait ==
  /\ lpc = "cleanup"
  /\ lpc' = "runtime_stopped"
  /\ runtime' = "stopped"
  /\ released' = Append(released, "runtime")
  /\ UNCHANGED <<credential, agent_client, orchestration>>
  /\ UNCHANGED <<storeVars, reqVars>>

\* await runtime.stop_when_idle()
StopRuntime ==
  /\ lpc = "cleanup"
  /\ RuntimeIdle
  /\ lpc' = "runtime_stopped"
  /\ runtime' = "stopped"
  /\ released' = Append(released, "runtime")
  /\ UNCHANGED <<credential, agent_client, orchestration>>
  /\ UNCHANGED <<storeVars, reqVars>>

\* if hasattr(client, 'close'): await client.close()
CloseClient ==
  /\ lpc = "runtime_stopped"
  /\ lpc' = "client_closed"
  /\ agent_client' = "closed"
  /\ released' = Append(released, "client")
  /\ UNCHANGED <<credential, orchestration, runtime>>
  /\ UNCHANGED <<storeVars, reqVars>>

\* await credential.close()
CloseCredential ==
  /\ lpc = "client_closed"
  /\ lpc' = "closed"
  /\ credential' = "closed"
  /\ released' = Append(released, "credential")
  /\ UNCHANGED <<agent_client, orchestration, runtime>>
  /\ UNCHANGED <<storeVars, reqVars>>


(***************************************************************************)
(* The session store: threads and get_thread.                              *)
(***************************************************************************)
\* A get_thread that stores a new thread at every call.
get_thread_always_new(c) == [threads EXCEPT ![c] = created + 1]

\* The dict threads after get_thread(c): a ChatHistoryAgentThread is
\* constructed and stored only when c has no entry.
get_thread(c) ==
  IF threads[c] = 0 THEN [threads EXCEPT ![c] = created + 1] ELSE threads

(***************************************************************************)
(* chat: one call per request.                                             *)
(***************************************************************************)
Arrived(r) == pc[r] # "idle"

\* chat up to its first suspension: thread = get_thread(req.conversation_id),
\* then host_agent.get_response(messages=req.user_query, thread=thread), which
\* adds the user message to the thread and calls the host model.
\* Requests are numbered by arrival. A conversation id is only a key to the
\* code, so the first request is taken to carry the default one.
ChatStart(r, c, q) ==
  /\ lpc = "serving"
  /\ pc[r] = "idle"
  /\ \A s \in Reqs : s < r => Arrived(s)
  /\ r = 1 => c = "default"
  /\ threads' = get_thread(c)
  /\ created' = IF threads'[c] # threads[c] THEN created + 1 ELSE created
  /\ hist' = LET h == IF created' # created THEN Append(hist, <<>>) ELSE hist
             IN  [h EXCEPT ![threads'[c]] = Append(@, <<"user", r>>)]
  /\ cid' = [cid EXCEPT ![r] = c]
  /\ query' = [query EXCEPT ![r] = q]
  /\ thread' = [thread EXCEPT ![r] = threads'[c]]
  /\ pc' = [pc EXCEPT ![r] = "classifying"]
  /\ path' = [path EXCEPT ![r] = <<"Classifying">>]
  /\ UNCHANGED <<calls, invoked, round, stale, items, response>>
  /\ UNCHANGED lifeVars

(***************************************************************************)
(* The host agent: a chat-completion model with the tool analyse_task. A   *)
(* turn of the model is either a final message or a call of the tool, and  *)
(* after a call the model takes another turn with the tool's result. The   *)
(* instructions ask it to greet in reply to a greeting, and otherwise to   *)
(* call the tool and to return the result verbatim; the model decides.     *)
(* The model is taken to call the tool at most once in a turn.             *)
(***************************************************************************)
\* The final messages the model may write when it did not call the tool.
DirectMessages == { <<TextItem(<<"greeting">>)>> }

\* The final messages the model may write after the tool returned `reply`:
\* the reply as it is, the reply in the model's own words, and the reply
\* spread over two text items.
DelegatedMessages(reply) ==
  { <<TextItem(reply)>>,
    <<TextItem(<<"summary">>)>>,
    <<TextItem(SubSeq(reply, 1, 3)), TextItem(SubSeq(reply, 4, Len(reply)))>> }

\* The text of a message that says the work is still going on and asks to
\* try again.
RetryLaterText == <<"still processing", "try again">>

\* The final messages the model may write after the tool raised: the model
\* is given the error and words its message itself; the instructions say
\* nothing about this case.
ErrorMessages == { <<TextItem(<<"apology">>)>>, <<TextItem(RetryLaterText)>> }

\* get_response ends: the assistant message joins the thread.
Respond(r, its, steps) ==
  /\ items' = [items EXCEPT ![r] = its]
  /\ path' = [path EXCEPT ![r] = @ \o steps]
  /\ hist' = [hist EXCEPT ![thread[r]] = Append(@, <<"assistant", r>>)]
  /\ pc' = [pc EXCEPT ![r] = "responding"]
  /\ UNCHANGED <<threads, created, cid, query, thread, calls, invoked, round, stale, response>>
  /\ UNCHANGED lifeVars

\* The model answers without calling the tool.
HostDirectReply(r) ==
  /\ pc[r] = "classifying"
  /\ \E its \in DirectMessages : Respond(r, its, <<"DirectReply", "Responding">>)

\* The model calls analyse_task(task): fut = await orchestration.invoke(...)
\* hands the task to every member; the round then waits in fut.get.
HostToolCall(r) ==
  /\ pc[r] \in {"classifying", "consolidating"}
  /\ calls[r] < MaxToolCalls
  /\ calls' = [calls EXCEPT ![r] = @ + 1]
  /\ invoked' = [invoked EXCEPT ![r] = @ + 1]
  /\ path' = [path EXCEPT ![r] = Append(@, "Delegating")]
  /\ round' = [round EXCEPT ![r] =
        [status |-> "waiting", task |-> query[r], pending |-> AgentSet,
         failed |-> {}, answers |-> <<>>, reply |-> <<>>]]
  /\ pc' = [pc EXCEPT ![r] = "delegating"]
  /\ UNCHANGED <<cid, query, thread, stale, items, response>>
  /\ UNCHANGED <<lifeVars, storeVars>>

\* The model writes its final message after the last tool call ended.
HostFinal(r) ==
  /\ pc[r] = "consolidating"
  /\ \E its \in (IF round[r].status = "returned"
                 THEN DelegatedMessages(round[r].reply)
                 ELSE ErrorMessages) : Respond(r, its, <<"Responding">>)

\* A chat that finishes under one lock shared by all conversations, held
\* by whichever request is in a dispatch round.
ChatReturn_global_lock(r) ==
  /\ pc[r] = "responding"
  /\ \A s \in Reqs : s # r => pc[s] # "delegating"
  /\ response' = [response EXCEPT ![r] = PlainResponse(items[r])]
  /\ pc' = [pc EXCEPT ![r] = "done"]
  /\ path' = [path EXCEPT ![r] = Append(@, "Idle")]
  /\ UNCHANGED <<cid, query, thread, calls, invoked, round, stale, items>>
  /\ UNCHANGED <<lifeVars, storeVars>>

\* chat after get_response: plain_response, return {"assistant": ...}.
ChatReturn(r) ==
  /\ pc[r] = "responding"
  /\ response' = [response EXCEPT ![r] = PlainResponse(items[r])]
  /\ pc' = [pc EXCEPT ![r] = "done"]
  /\ path' = [path EXCEPT ![r] = Append(@, "Idle")]
  /\ UNCHANGED <<cid, query, thread, calls, invoked, round, stale, items>>
  /\ UNCHANGED <<lifeVars, storeVars>>

(***************************************************************************)
(* A dispatch round: the members work on the task, the orchestration       *)
(* collects their answers, analyse_task waits for the list.                *)
(***************************************************************************)
\* The list of answers after agent a's answer reached the orchestration.
Collect(answers, a, task) ==
  Append(answers, [name |-> a, text |-> AgentText(a, task), task |-> task])

\* An orchestration with one collector for all its invocations: the answer
\* of agent a to the task of request r lands in any round that is waiting.
AgentAnswer_shared_collector(r, a) ==
  /\ runtime = "running"
  /\ round[r].status = "waiting"
  /\ a \in round[r].pending
  /\ \E s \in Reqs :
       /\ round[s].status = "waiting"
       /\ round' = [round EXCEPT ![r].pending = @ \ {a},
                                 ![s].answers = Collect(@, a, round[r].task)]
  /\ UNCHANGED <<pc, cid, query, thread, path, calls, invoked, stale, items, response>>
  /\ UNCHANGED <<lifeVars, storeVars>>

\* Agent a answers in the round of request r: the orchestration collects
\* the answer.
AgentAnswer(r, a) ==
  /\ runtime = "running"
  /\ round[r].status = "waiting"
  /\ a \in round[r].pending
  /\ round' = [round EXCEPT ![r] =
        [@ EXCEPT !.pending = @ \ {a},
                  !.answers = Collect(@, a, round[r].task)]]
  /\ UNCHANGED <<pc, cid, query, thread, path, calls, invoked, stale, items, response>>
  /\ UNCHANGED <<lifeVars, storeVars>>

\* Agent a fails in the round of request r: no answer of it is collected.
AgentFail(r, a) ==
  /\ runtime = "running"
  /\ round[r].status = "waiting"
  /\ a \in round[r].pending
  /\ round' = [round EXCEPT ![r] =
        [@ EXCEPT !.pending = @ \ {a}, !.failed = @ \cup {a}]]
  /\ UNCHANGED <<pc, cid, query, thread, path, calls, invoked, stale, items, response>>
  /\ UNCHANGED <<lifeVars, storeVars>>

\* An analyse_task that works with a client of its own for the call and
\* closes the one the global names when the round ends.
AnalyseReturn_closes_client(r) ==
  /\ pc[r] = "delegating"
  /\ round[r].status = "waiting"
  /\ Len(round[r].answers) = Len(Agents)
  /\ round' = [round EXCEPT ![r] =
        [@ EXCEPT !.status = "returned",
                  !.reply = AnalyseJoin(round[r].answers)]]
  /\ pc' = [pc EXCEPT ![r] = "consolidating"]
  /\ agent_client' = "closed"
  /\ UNCHANGED <<cid, query, thread, path, calls, invoked, stale, items, response>>
  /\ UNCHANGED <<lpc, credential, orchestration, runtime, released>>
  /\ UNCHANGED storeVars

\* answers = await fut.get(timeout=50) returns the list once every member
\* has answered; analyse_task returns the join.
AnalyseReturn(r) ==
  /\ pc[r] = "delegating"
  /\ round[r].status = "waiting"
  /\ Len(round[r].answers) = Len(Agents)
  /\ round' = [round EXCEPT ![r] =
        [@ EXCEPT !.status = "returned",
                  !.reply = AnalyseJoin(round[r].answers)]]
  /\ pc' = [pc EXCEPT ![r] = "consolidating"]
  /\ UNCHANGED <<cid, query, thread, path, calls, invoked, stale, items, response>>
  /\ UNCHANGED <<lifeVars, storeVars>>

\* An analyse_task that answers a timeout by invoking the orchestration
\* again for the same task.
AnalyseTimeout_retry(r) ==
  /\ pc[r] = "delegating"
  /\ round[r].status = "waiting"
  /\ Len(round[r].answers) < Len(Agents)
  /\ invoked' = [invoked EXCEPT ![r] = @ + 1]
  /\ round' = [round EXCEPT ![r] =
        [@ EXCEPT !.pending = AgentSet, !.failed = {}, !.answers = <<>>]]
  /\ stale' = stale + Cardinality(round[r].pending)
  /\ UNCHANGED <<pc, cid, query, thread, path, calls, items, response>>
  /\ UNCHANGED <<lifeVars, storeVars>>

\* fut.get(timeout=50) raises while an answer is missing; nothing in
\* analyse_task catches it. The agents still at work are left to themselves.
AnalyseTimeout(r) ==
  /\ pc[r] = "delegating"
  /\ round[r].status = "waiting"
  /\ Len(round[r].answers) < Len(Agents)
  /\ round' = [round EXCEPT ![r] =
        [@ EXCEPT !.status = "raised", !.pending = {}]]
  /\ stale' = stale + Cardinality(round[r].pending)
  /\ pc' = [pc EXCEPT ![r] = "consolidating"]
  /\ UNCHANGED <<cid, query, thread, path, calls, invoked, items, response>>
  /\ UNCHANGED <<lifeVars, storeVars>>

\* An agent left at work by a round that gave up finishes: its answer, or
\* its failure, reaches a result nobody waits for.
LateSettle ==
  /\ runtime = "running"
  /\ stale > 0
  /\ stale' = stale - 1
  /\ UNCHANGED <<pc, cid, query, thread, path, calls, invoked, round, items, response>>
  /\ UNCHANGED <<lifeVars, storeVars>>

(***************************************************************************)
(* The specification.                                                      *)
(***************************************************************************)
Next ==
  \/ CreateCredential
  \/ CreateClient
  \/ GetAgentDef
  \/ StartupFail
  \/ CreateOrchestration
  \/ StartRuntime
  \/ BeginShutdown
  \/ StopRuntime
  \/ CloseClient
  \/ CloseCredential
  \/ \E r \in Reqs, c \in Cids, q \in Queries : ChatStart(r, c, q)
  \/ \E r \in Reqs : HostDirectReply(r)
  \/ \E r \in Reqs : HostToolCall(r)
  \/ \E r \in Reqs : HostFinal(r)
  \/ \E r \in Reqs : ChatReturn(r)
  \/ \E r \in Reqs, a \in AgentSet : AgentAnswer(r, a)
  \/ \E r \in Reqs, a \in AgentSet : AgentFail(r, a)
  \/ LateSettle
  \/ \E r \in Reqs : AnalyseReturn(r)
  \/ \E r \in Reqs : AnalyseTimeout(r)

Spec == Init /\ [][Next]_vars

(***************************************************************************)
(* Properties.                                                             *)
(***************************************************************************)
\* analyse_task of request r is waiting for its agents.
InFlight(r) == pc[r] = "delegating"

\* The current round of request r has ended, by a return or by an exception.
RoundEnded(r) == round[r].status \in {"returned", "raised"}

\* The agents whose answer the orchestration collected in the round of r.
Succeeded(r) == {round[r].answers[i].name : i \in 1..Len(round[r].answers)}

\* The agents without an answer in the round of r: failed, or still at work
\* when the wait was given up.
Missing(r) == AgentSet \ Succeeded(r)

\* C1: two chat requests with the same conversation_id are serialized: the
\* later one starts its dispatch round only after the turn of the earlier one
\* has been appended to the session, so two dispatch rounds of one session
\* are never in flight at the same time.
C1_SameIdSerialized ==
  \A r, s \in Reqs :
    (r < s /\ Arrived(s) /\ cid[r] = cid[s]) =>
      /\ calls[s] > 0 => pc[r] \in {"responding", "done"}
      /\ ~(InFlight(r) /\ InFlight(s))

\* C2: there is exactly one session per conversation id: as many threads
\* were constructed as ids have an entry, no two ids share a thread, every
\* get_thread call with the same id returned the thread stored for the id,
\* and a stored thread is never replaced or removed.
C2_OneThreadPerId ==
  /\ [](/\ created = Cardinality({c \in Cids : threads[c] # 0})
        /\ \A c, d \in Cids : (threads[c] # 0 /\ threads[c] = threads[d]) => c = d
        /\ \A r \in Reqs : Arrived(r) =>
              thread[r] # 0 /\ thread[r] = threads[cid[r]])
  /\ [][\A c \in Cids : threads[c] # 0 => threads'[c] = threads[c]]_vars

\* C2 witness: two requests made the first access to one id while both are
\* in progress, and one thread exists.
C2_Witness ==
  /\ Arrived(1) /\ Arrived(2)
  /\ cid[1] = cid[2]
  /\ pc[1] = "classifying" /\ pc[2] = "classifying"
  /\ created = 1

\* The names of the answers, in the order of the list fut.get returned.
AnswerOrder(r) == [i \in 1..Len(round[r].answers) |-> round[r].answers[i].name]

\* C3: every dispatch round yields exactly one outcome per registered agent,
\* in registration order (categoriser, then data agent), whatever the order
\* in which the agents complete.
C3_OutcomesInRegistrationOrder ==
  \A r \in Reqs : round[r].status = "returned" => AnswerOrder(r) = Agents

\* C4: when an agent has not answered by the deadline, the round still ends,
\* with that agent recorded as Timeout in the result the caller receives.
C4_PendingRecordedAsTimeout ==
  \A r \in Reqs :
    (RoundEnded(r) /\ Missing(r) \ round[r].failed # {}) =>
      /\ round[r].status = "returned"
      /\ \A a \in Missing(r) \ round[r].failed :
            \E i \in 1..Len(round[r].reply) : round[r].reply[i] = a

\* C5: a failure or a timeout of an agent never leaves analyse_task as an
\* exception.
C5_NoExceptionOutOfDispatcher ==
  \A r \in Reqs : round[r].status # "raised"

\* A caveat line of reply names exactly the agents of the set names.
HasCaveat(reply, names) ==
  \E i \in 1..Len(reply) :
    /\ reply[i] = "caveat"
    /\ {reply[j] : j \in (i + 1)..Len(reply)} = names

\* The text of agent a for the task of r is part of reply.
HasText(reply, r, a) ==
  \E i \in 1..Len(reply) : <<reply[i]>> = AgentText(a, round[r].task)

\* C6: when at least one agent succeeds and at least one fails or times out,
\* the reply holds the text of every successful agent and one trailing
\* caveat line naming exactly the agents that failed or timed out; when all
\* succeed the reply has no caveat line.
C6_PartialReplyWithCaveat ==
  \A r \in Reqs : RoundEnded(r) =>
    /\ (Succeeded(r) # {} /\ Missing(r) # {}) =>
          /\ round[r].status = "returned"
          /\ \A a \in Succeeded(r) : HasText(round[r].reply, r, a)
          /\ HasCaveat(round[r].reply, Missing(r))
    /\ Missing(r) = {} =>
          /\ \A a \in AgentSet : HasText(round[r].reply, r, a)
          /\ \A i \in 1..Len(round[r].reply) : round[r].reply[i] # "caveat"

\* C7: when no agent succeeds, the caller receives a designated fallback
\* string, which is not the empty string.
C7_FallbackOnTotalFailure ==
  \A r \in Reqs : (RoundEnded(r) /\ Succeeded(r) = {}) =>
    /\ round[r].status = "returned"
    /\ round[r].reply # <<>>

\* The reply for a task when every agent succeeds, the entries taken in
\* registration order: header line, text, a blank line between entries.
RegistrationOrderReply(task) ==
  Join(<<"\n\n">>,
       [i \in 1..Len(Agents) |-> <<Agents[i], ":\n">> \o AgentText(Agents[i], task)])

\* C8: the reply is the concatenation of the text of every successful agent,
\* each preceded by a header line naming the agent, with a blank line between
\* entries, in registration order.
C8_ReplyInRegistrationOrder ==
  \A r \in Reqs : round[r].status = "returned" =>
     round[r].reply = RegistrationOrderReply(round[r].task)

\* C9: on the delegating path the "assistant" field of the response equals
\* the string analyse_task returned, character for character.
C9_ResponseVerbatim ==
  \A r \in Reqs : (pc[r] = "done" /\ round[r].status = "returned") =>
     response[r] = round[r].reply

\* C10: each task is classified once and goes Idle, Classifying, exactly one
\* of DirectReply and Delegating, Responding, Idle; on the DirectReply path
\* the dispatcher is never invoked.
C10_OneDecisionPerTask ==
  \A r \in Reqs : pc[r] = "done" =>
    \/ path[r] = <<"Classifying", "DirectReply", "Responding", "Idle">>
         /\ calls[r] = 0 /\ round[r].status = "none"
    \/ path[r] = <<"Classifying", "Delegating", "Responding", "Idle">>
         /\ calls[r] = 1

\* A step of the chat call of request r, of the host turn or of the
\* analyse_task call it is in.
RequestStep(r) ==
  \/ HostDirectReply(r)
  \/ HostToolCall(r)
  \/ HostFinal(r)
  \/ ChatReturn(r)
  \/ AnalyseReturn(r)
  \/ AnalyseTimeout(r)

\* The chat call of request r is in progress.
InProgress(r) == pc[r] \notin {"idle", "done"}

\* C11: requests with distinct conversation ids never block each other: a
\* request in progress can take its next step whatever the progress of a
\* request for another id.
C11_DistinctIdsNeverBlock ==
  \A r, s \in Reqs :
    (r # s /\ InProgress(r) /\ Arrived(s) /\ cid[r] # cid[s]) =>
       ENABLED RequestStep(r)

\* C11 witness: a request has its reply ready while a request for another
\* id is in the middle of a dispatch round.
C11_Witness ==
  \E r, s \in Reqs :
    /\ pc[r] = "responding" /\ pc[s] = "delegating"
    /\ cid[r] # cid[s]
    /\ Len(round[s].answers) = 1

\* The order in which lifespan releases the long-lived resources.
ReleaseOrder == <<"runtime", "client", "credential">>

\* s is a prefix of t.
IsPrefix(s, t) == Len(s) <= Len(t) /\ SubSeq(t, 1, Len(s)) = s

\* C12: the resources are released in the reverse of the order they were
\* acquired in (credential, client, runtime): the runtime first, then the
\* client, then the credential; and nothing is released while a dispatch
\* round is in flight or an agent call of a round is still running.
C12_ReverseReleaseAfterDrain ==
  /\ IsPrefix(released, ReleaseOrder)
  /\ (runtime # None => agent_client # None)
  /\ (agent_client # None => credential # None)
  /\ (credential = "closed" => agent_client = "closed")
  /\ (agent_client = "closed" => runtime = "stopped")
  /\ (released # <<>> => /\ RuntimeIdle
                         /\ \A r \in Reqs : ~InFlight(r))

\* C12 witness: everything has been released after a round timed out
\* and left agent calls running.
C12_Witness ==
  /\ released = ReleaseOrder
  /\ \E r \in Reqs : round[r].status = "raised" /\ round[r].answers = <<>>

\* C13: a request whose dispatch round timed out is answered with the
\* "still processing / try again" message.
C13_TimeoutAnsweredWithRetryLater ==
  \A r \in Reqs :
    (pc[r] = "done" /\ round[r].status = "raised") =>
       response[r] = RetryLaterText

\* The agents whose answer the round of request r has collected.
Answered(r) == { round[r].answers[i].name : i \in 1..Len(round[r].answers) }

\* C14: analyse_task invokes the orchestration once per call, and a round
\* hands the task to each agent once: while it waits, every agent is
\* either still at work, or has answered once, or has failed; a round that
\* ended by a timeout or a failure is not submitted again.
C14_OneInvocationPerCall ==
  \A r \in Reqs :
    /\ invoked[r] = calls[r]
    /\ round[r].status = "waiting" =>
         /\ round[r].pending \cup Answered(r) \cup round[r].failed = AgentSet
         /\ round[r].pending \cap Answered(r) = {}
         /\ round[r].pending \cap round[r].failed = {}
         /\ Answered(r) \cap round[r].failed = {}
         /\ Cardinality(Answered(r)) = Len(round[r].answers)
    /\ round[r].status = "raised" => round[r].pending = {}

\* C14 witness: a call of analyse_task ended by a timeout with one agent's
\* answer missing, after one invocation.
C14_Witness ==
  \E r \in Reqs :
    /\ round[r].status = "raised" /\ Len(round[r].answers) = 1
    /\ calls[r] = 1 /\ invoked[r] = 1

\* A resource is acquired, or released, in a step from v to w.
AcquiredOrReleased(v, w) ==
  \/ v = None /\ w = "open"
  \/ v = "open" /\ w = "closed"

\* C15: the credential and the client are acquired once and released once,
\* by lifespan only: every step that changes one of them is a step of
\* lifespan that takes it from absent to open or from open to closed and
\* touches no request; while requests are served both are open.
C15_AcquiredAndReleasedOnceByLifespan ==
  /\ [](lpc = "serving" => credential = "open" /\ agent_client = "open")
  /\ [](lpc = "closed" => credential = "closed" /\ agent_client = "closed")
  /\ [][ /\ credential' # credential =>
              /\ AcquiredOrReleased(credential, credential')
              /\ lpc' # lpc /\ UNCHANGED reqVars
         /\ agent_client' # agent_client =>
              /\ AcquiredOrReleased(agent_client, agent_client')
              /\ lpc' # lpc /\ UNCHANGED reqVars ]_vars

\* C15 witness: requests were served, one with a dispatch round, and the
\* client and the credential have been released.
C15_Witness ==
  /\ lpc = "closed"
  /\ \A r \in Reqs : pc[r] = "done"
  /\ \E r \in Reqs : round[r].status = "returned"

\* h is a sequence of complete turns: a user message at every odd
\* position, followed by the assistant reply to that same message.
RECURSIVE CompleteTurns(_)
CompleteTurns(h) ==
  IF h = <<>> THEN TRUE
  ELSE /\ Len(h) >= 2
       /\ h[1][1] = "user" /\ h[2][1] = "assistant"
       /\ h[1][2] = h[2][2]
       /\ CompleteTurns(SubSeq(h, 3, Len(h)))

\* No chat call on thread t is in progress.
Quiet(t) == \A r \in Reqs : thread[r] = t => pc[r] \in {"idle", "done"}

\* C16: once the requests on a conversation id have ended, its history is
\* a sequence of complete turns.
C16_HistoryOfCompleteTurns ==
  \A t \in DOMAIN hist : Quiet(t) => CompleteTurns(hist[t])

\* The shared resources are live: startup has set the orchestration and
\* started the runtime, and shutdown has not stopped or closed anything.
ResourcesLive ==
  /\ orchestration = "set" /\ runtime = "running"
  /\ agent_client = "open" /\ credential = "open"
  /\ released = <<>>

\* C17: a dispatch round runs only while the shared resources are live,
\* and so does every agent call a round left behind.
C17_RoundOnlyWhileLive ==
  /\ \A r \in Reqs : InFlight(r) => ResourcesLive
  /\ stale > 0 => ResourcesLive

\* C17 witness: a round is in flight, one answer collected, while agent
\* calls of a round that timed out are still running.
C17_Witness ==
  \E r \in Reqs :
    /\ InFlight(r) /\ Len(round[r].answers) = 1
    /\ stale > 0

\* C18: when startup has failed, no credential and no client is left
\* open.
C18_FailedStartupReleasesAll ==
  lpc = "failed" => credential # "open" /\ agent_client # "open"

\* The tokens a reply to `task` is made of: the agents' names, the
\* separators, and the texts the agents produce for that task.
OwnTokens(task) ==
  AgentSet \cup {":\n", "\n\n"}
    \cup UNION { {AgentText(a, task)[i] : i \in 1..Len(AgentText(a, task))}
                 : a \in AgentSet }

\* C19: the round of a request collects only answers to that request's own
\* task, at most one per agent, and the reply it returns is made of those
\* answers only, whatever other rounds run or were given up meanwhile.
C19_ReplyOnlyFromOwnRound ==
  \A r \in Reqs :
    /\ \A i \in 1..Len(round[r].answers) :
         /\ round[r].answers[i].task = query[r]
         /\ round[r].answers[i].text =
              AgentText(round[r].answers[i].name, query[r])
    /\ Cardinality(Answered(r)) = Len(round[r].answers)
    /\ round[r].status = "returned" =>
         /\ Answered(r) = AgentSet
         /\ \A i \in 1..Len(round[r].reply) :
              round[r].reply[i] \in OwnTokens(query[r])

\* C19 witness: a round returned its reply while the round of a request
\* with another task was collecting answers and agent calls of a round
\* that timed out were still running.
C19_Witness ==
  \E r, s \in Reqs :
    /\ query[r] # query[s]
    /\ pc[r] = "consolidating" /\ round[r].status = "returned"
    /\ InFlight(s) /\ Len(round[s].answers) = 1
    /\ stale > 0

====
